---- MODULE Spec2Model ----
(***************************************************************************)
(* The generation service layer of influencer-maker                        *)
(* (src/services/geminiService.ts): credential resolution, the error       *)
(* classifier, the single-unit generator, the four single-unit entry       *)
(* points and the batch orchestrator generateStoryBatch.                   *)
(*                                                                         *)
(* Text is modelled as a sequence of chunks.  The three substrings the     *)
(* code searches for ("403", "PERMISSION_DENIED", "429") are chunks of     *)
(* their own, every other chunk is text that holds none of them, and       *)
(* String.prototype.includes is a search of the chunk sequence.            *)
(*                                                                         *)
(* JavaScript runs each job to completion: the continuation of an await    *)
(* runs only after the synchronous code that issued the requests has       *)
(* suspended.  pc records where the entry point's own code stands.         *)
(***************************************************************************)
EXTENDS Integers, Sequences, FiniteSets, Bags, TLC

VARIABLES
    localKey,    \* localStorage item 'gemini_api_key' (Absent, "" or a key)
    envKey,      \* process.env.API_KEY
    op,          \* the entry point in progress, "none" before the call
    modelType,   \* the modelType argument ("undefined" when not passed)
    prompts,     \* the prompts argument (one compiled prompt for the single-unit entry points)
    pc,          \* "idle", "map" (issuing requests), "wait"/"join" (suspended at an await), "done"
    units,       \* per prompt: the state of its generation unit
    arrived,     \* the units in the order in which they settled
    lookups,     \* number of getAiClient calls made by the entry point
    classified,  \* the arguments of every handleGeminiError call, in call order
    outcome,     \* how the entry point completed: pending, return or throw
    refImage,    \* the reference image payload the caller passes (App state refImage)
    camera,      \* App state cameraSettings, the settings argument of generateStudioImage
    apiKeyError, \* App state apiKeyError, set by checkApiKey
    activeTab,   \* App state activeTab
    appPersona,  \* App state persona
    stories,     \* App state stories
    scenarioInput, \* App state scenarioInput
    appState,    \* App state appState
    appError,    \* App state error
    tasks,       \* the App handlers suspended at an await (a bag)
    timers,      \* pending setTimeout callbacks of the App
    now          \* Date.now()

\* the state of the App component beyond what a service call reads
appVars == <<activeTab, appPersona, stories, scenarioInput, appState, appError, tasks,
             timers, now>>

vars == <<localKey, envKey, op, modelType, prompts, pc, units, arrived,
          lookups, classified, outcome, refImage, camera, apiKeyError, appVars>>

\* ------------------------------------------------------------------ bounds
\* The longest prompts list a batch is called with.
MaxPrompts == 2

\* ------------------------------------------------------------- JS values
Absent == "<absent>"

\* JavaScript truthiness of a string-or-null value
Truthy(v) == v # Absent /\ v # ""

Return(v) == [type |-> "return", value |-> v]
Throw(e) == [type |-> "throw", value |-> e]
Pending == [type |-> "pending"]

\* String.prototype.includes, on chunked text
Includes(text, needle) == \E k \in 1..Len(text) : text[k] = needle

\* new Error(message): message is an own property, toString() is "Error: " + message
NewError(message) ==
    [hasMessage |-> TRUE, message |-> message,
     str |-> IF message = <<>> THEN <<"Error">> ELSE <<"Error: ">> \o message]

\* a thrown value that is not an Error (a string): no message property,
\* toString() is the string itself
ThrownString(text) == [hasMessage |-> FALSE, message |-> <<>>, str |-> text]

NoError == [hasMessage |-> FALSE, message |-> <<>>, str |-> <<"null">>]

\* ------------------------------------------------------ message literals
MissingKeyMsg ==
    <<"API Key not found. Please click the Key icon to register your API Key.">>
BillingMsg ==
    <<"Access Denied (", "403", "). 'Banana Pro' requires a Google Cloud Project with Billing enabled. Please switch to 'Flash Lite' or use a paid API key.">>
AccessDeniedMsg ==
    <<"Access Denied (", "403", "). Please check if your API Key is valid and has permissions for the Generative AI API.">>
\* variant: the quota message also names the other status code
QuotaMsgNaming403 ==
    <<"Quota Exceeded (", "429", "). You are generating too fast. This is not a permission (", "403", ") problem.">>
QuotaMsg ==
    <<"Quota Exceeded (", "429", "). You are generating too fast. Please wait a moment.">>
NoImageMsg == <<"No image generated">>
NoImageRefMsg == <<"No image generated.">>
RefusedPrefix == <<"Model refused: ">>
RefFallbackMsg == <<"Failed to generate reference image">>
PersonaFailMsg == <<"Failed to generate persona">>
PlanFailMsg == <<"Failed to plan story">>
PngPrefix == <<"data:image/png;base64,">>

\* ------------------------------------------------------------ getAiClient
\* variant: one client, made from the environment default when the module loads
getAiClientModuleLevel(lk, ek) ==
    IF ~Truthy(ek) THEN Throw(NewError(MissingKeyMsg)) ELSE Return(ek)

\* variant: the environment default takes precedence
getAiClientEnvFirst(lk, ek) ==
    LET apiKey == IF Truthy(ek) THEN ek ELSE lk
    IN  IF ~Truthy(apiKey) THEN Throw(NewError(MissingKeyMsg))
        ELSE Return(apiKey)

getAiClient(lk, ek) ==
    LET apiKey == IF Truthy(lk) THEN lk ELSE ek
    IN  IF ~Truthy(apiKey) THEN Throw(NewError(MissingKeyMsg))
        ELSE Return(apiKey)

\* -------------------------------------------------------------cleanBase64
\* A payload is chunked as "data:image/", <format>, ";base64,", <data...> when
\* it starts with a data-URI header, and is its data chunks otherwise.
ImageFormats == {"png", "jpeg", "jpg", "webp"}

\* base64Data.replace(/^data:image\/(png|jpeg|jpg|webp);base64,/, '')
cleanBase64(base64Data) ==
    IF /\ Len(base64Data) >= 3
       /\ base64Data[1] = "data:image/"
       /\ base64Data[2] \in ImageFormats
       /\ base64Data[3] = ";base64,"
    THEN SubSeq(base64Data, 4, Len(base64Data))
    ELSE base64Data

\* ------------------------------------------------------ handleGeminiError
\* const msg = error.message || error.toString()
ErrorText(error) ==
    IF error.hasMessage /\ error.message # <<>> THEN error.message ELSE error.str

\* variant: the final "throw error" is missing, an unrecognized error returns
handleGeminiErrorFallsThrough(error, mt) ==
    LET msg == ErrorText(error)
    IN  IF Includes(msg, "403") \/ Includes(msg, "PERMISSION_DENIED")
        THEN IF mt = "pro" THEN Throw(NewError(BillingMsg))
             ELSE Throw(NewError(AccessDeniedMsg))
        ELSE IF Includes(msg, "429") THEN Throw(NewError(QuotaMsg))
        ELSE Return("undefined")

\* variant: the 429 test comes before the 403 test
handleGeminiErrorQuotaFirst(error, mt) ==
    LET msg == ErrorText(error)
    IN  IF Includes(msg, "429") THEN Throw(NewError(QuotaMsg))
        ELSE IF Includes(msg, "403") \/ Includes(msg, "PERMISSION_DENIED")
        THEN IF mt = "pro" THEN Throw(NewError(BillingMsg))
             ELSE Throw(NewError(AccessDeniedMsg))
        ELSE Throw(error)

\* variant: an unrecognized error is replaced by a generic one
handleGeminiErrorWrapping(error, mt) ==
    LET msg == ErrorText(error)
    IN  IF Includes(msg, "403") \/ Includes(msg, "PERMISSION_DENIED")
        THEN IF mt = "pro" THEN Throw(NewError(BillingMsg))
             ELSE Throw(NewError(AccessDeniedMsg))
        ELSE IF Includes(msg, "429") THEN Throw(NewError(QuotaMsg))
        ELSE Throw(NewError(<<"Gemini request failed">>))

\* The completion of a call handleGeminiError(error, modelType)
handleGeminiError(error, mt) ==
    LET msg == ErrorText(error)
    IN  IF Includes(msg, "403") \/ Includes(msg, "PERMISSION_DENIED")
        THEN IF mt = "pro" THEN Throw(NewError(BillingMsg))
             ELSE Throw(NewError(AccessDeniedMsg))
        ELSE IF Includes(msg, "429") THEN Throw(NewError(QuotaMsg))
        ELSE Throw(error)

\* ------------------------------------------------- the generation service
\* A response part: inlineData (with its data) and text, either may be absent
ImagePart(data) == [hasInline |-> TRUE, data |-> data, text |-> <<>>]
TextPart(text) == [hasInline |-> FALSE, data |-> <<>>, text |-> text]
Candidate(parts) == [hasParts |-> TRUE, parts |-> parts]
CandidateNoParts == [hasParts |-> FALSE, parts |-> <<>>]
Response(candidates) ==
    [kind |-> "response", hasCandidates |-> TRUE, candidates |-> candidates]
ResponseNoCandidates ==
    [kind |-> "response", hasCandidates |-> FALSE, candidates |-> <<>>]
TextResponse(text, isJson) == [kind |-> "text", text |-> text, isJson |-> isJson]
Reject(error) == [kind |-> "reject", error |-> error]

\* the image the service produces for the request of unit i
ImageData(i) == <<"IMG", ToString(i)>>
RefusalText == <<"I can't help with that.">>

\* errors a request can be rejected with
RawErrors ==
    { NewError(<<"fetch failed">>),
      NewError(<<"got status: ", "403", " Forbidden">>),
      NewError(<<"{\"status\":\"", "PERMISSION_DENIED", "\"}">>),
      NewError(<<"got status: ", "429", " Too Many Requests">>),
      NewError(<<"429", " after ", "403">>),
      ThrownString(<<"403", " Forbidden">>) }

\* what the service can answer to the image request of unit i
ImageAnswers(i) ==
    { Response(<<Candidate(<<ImagePart(ImageData(i))>>)>>),
      Response(<<Candidate(<<TextPart(RefusalText), ImagePart(ImageData(i))>>)>>),
      Response(<<Candidate(<<TextPart(RefusalText)>>)>>),
      Response(<<Candidate(<<TextPart(RefusalText)>>),
                 Candidate(<<ImagePart(ImageData(i))>>)>>),
      Response(<<Candidate(<<ImagePart(<<>>)>>)>>),
      Response(<<Candidate(<<ImagePart(<<>>), ImagePart(ImageData(i)),
                             ImagePart(<<"OTHER">>)>>)>>),
      Response(<<CandidateNoParts>>),
      Response(<<>>),
      ResponseNoCandidates }
    \cup { Reject(e) : e \in RawErrors }

\* what the service can answer to a structured-output (JSON) request
TextAnswers ==
    { TextResponse(<<"{...}">>, TRUE),
      TextResponse(<<"not json">>, FALSE),
      TextResponse(<<>>, FALSE) }
    \cup { Reject(e) : e \in RawErrors }

\* for (const part of parts) when parts is undefined
NotIterable == NewError(<<"undefined is not iterable">>)
\* JSON.parse on text that is not JSON
JsonSyntaxError == NewError(<<"Unexpected token in JSON">>)

\* variant: the scan keeps the last part with inline data
LastImagePart(parts) ==
    LET hits == { k \in 1..Len(parts) : parts[k].hasInline /\ parts[k].data # <<>> }
    IN  IF hits = {} THEN 0 ELSE CHOOSE k \in hits : \A m \in hits : k >= m

\* index of the first part with non-empty inline data, 0 when there is none
FirstImagePart(parts) ==
    LET hits == { k \in 1..Len(parts) : parts[k].hasInline /\ parts[k].data # <<>> }
    IN  IF hits = {} THEN 0 ELSE CHOOSE k \in hits : \A m \in hits : k <= m

\* parts.find(p => p.text)
FirstTextPart(parts) ==
    LET hits == { k \in 1..Len(parts) : parts[k].text # <<>> }
    IN  IF hits = {} THEN 0 ELSE CHOOSE k \in hits : \A m \in hits : k <= m

\* generateSingleImage after the await: the completion of the function
SingleImageResume(answer) ==
    IF answer.kind = "reject" THEN Throw(answer.error)
    ELSE IF answer.hasCandidates /\ Len(answer.candidates) > 0
    THEN LET c == answer.candidates[1]
         IN  IF ~c.hasParts THEN Throw(NotIterable)
             ELSE LET k == FirstImagePart(c.parts)
                  IN  IF k # 0 THEN Return(PngPrefix \o c.parts[k].data)
                      ELSE Throw(NewError(NoImageMsg))
    ELSE Throw(NewError(NoImageMsg))

\* the try block of generateReferenceImage after the await
ReferenceResume(answer) ==
    IF answer.kind = "reject" THEN Throw(answer.error)
    ELSE IF answer.hasCandidates /\ Len(answer.candidates) > 0
    THEN LET c == answer.candidates[1]
         IN  IF ~c.hasParts THEN Throw(NotIterable)
             ELSE LET k == FirstImagePart(c.parts)
                      t == FirstTextPart(c.parts)
                  IN  IF k # 0 THEN Return(PngPrefix \o c.parts[k].data)
                      ELSE IF t # 0
                      THEN Throw(NewError(RefusedPrefix \o c.parts[t].text))
                      ELSE Throw(NewError(NoImageRefMsg))
    ELSE Throw(NewError(NoImageRefMsg))

\* the try block of analyzePersona / planStory after the await
TextResume(answer, failMsg) ==
    IF answer.kind = "reject" THEN Throw(answer.error)
    ELSE IF answer.text = <<>> THEN Throw(NewError(failMsg))
    ELSE IF ~answer.isJson THEN Throw(JsonSyntaxError)
    ELSE Return(answer.text)

\* --------------------------------------------------------------- units
\* One unit of work: one call of the service for one prompt.
\*   sent       requests issued to the service for this unit
\*   key        the credential its request carries
\*   outcomes   completions produced for this unit
\*   completion how generateSingleImage (or the entry point's try block) completed
\*   captured   generateStoryBatch only: the record its map callback resolved to
\*   data       the inline image data its request carries (<<>> when it carries none)
\*   answer     what the service answered to its request (kept for the entry
\*              points that make one request; a batch unit's is in captured)
NoAnswer == [kind |-> "none"]
NoCapture == [url |-> <<>>, prompt |-> "", success |-> FALSE, error |-> NoError, hasError |-> FALSE]
IdleUnit ==
    [status |-> "idle", sent |-> 0, key |-> Absent, outcomes |-> 0,
     completion |-> Pending, captured |-> NoCapture, data |-> <<>>,
     answer |-> NoAnswer]

\* generateSingleImage up to its await: resolve the credential, issue the request.
\* A throw of getAiClient rejects the promise; the caller sees it after its own await.
SingleImageCall(u, lk, ek, image) ==
    LET c == getAiClient(lk, ek)
    IN  IF c.type = "throw"
        THEN [u EXCEPT !.status = "awaiting", !.completion = c]
        ELSE [u EXCEPT !.status = "awaiting", !.sent = u.sent + 1, !.key = c.value,
                       !.data = cleanBase64(image)]

\* an entry point that resolved the client itself issues its one request
DirectCall(u, apiKey, data) ==
    [u EXCEPT !.status = "awaiting", !.sent = u.sent + 1, !.key = apiKey, !.data = data]

\* variant: a failed request is sent once more
SingleImageSettleRetrying(u, c) ==
    IF c.type = "throw" /\ u.sent = 1
    THEN [u EXCEPT !.sent = u.sent + 1]
    ELSE [u EXCEPT !.status = "settled", !.completion = c, !.outcomes = u.outcomes + 1]

\* generateSingleImage from its await on: one completion, the catch re-throws
SingleImageSettle(u, c) ==
    [u EXCEPT !.status = "settled", !.completion = c, !.outcomes = u.outcomes + 1]

\* the map callback of generateStoryBatch: the unit's completion as a record
Capture(prompt, c) ==
    IF c.type = "return"
    THEN [url |-> c.value, prompt |-> prompt, success |-> TRUE,
          error |-> NoError, hasError |-> FALSE]
    ELSE [url |-> <<>>, prompt |-> prompt, success |-> FALSE,
          error |-> c.value, hasError |-> TRUE]

\* ------------------------------------------------------ generateStoryBatch
\* variant: a loop that awaits each unit before starting the next
AwaitsEachUnitInTurn == TRUE

\* prompts.map(async ...) does not await a unit before it starts the next
AwaitsEachUnit == FALSE

\* variant: Promise.race / a callback that lets its error escape
AnySettled(us) == \E i \in DOMAIN us : us[i].status = "settled"

\* await Promise.all(promises): every promise fulfilled (none rejects, each
\* callback catches)
AllSettled(us) == \A i \in DOMAIN us : us[i].status = "settled"

\* variant: results pushed as the responses arrive
PromiseAllInArrivalOrder(us, arr) == [k \in 1..Len(arr) |-> us[arr[k]].captured]

\* the value Promise.all resolves to: the results in the order of the promises
PromiseAll(us, arr) == [i \in 1..Len(us) |-> us[i].captured]

\* variant: the scan looks for "403" alone
IsFatalOnly403(r) == r.hasError /\ r.error.hasMessage /\ Includes(r.error.message, "403")

\* variant: a rate-limited unit is fatal as well
IsFatalAlso429(r) ==
    /\ r.hasError
    /\ r.error.hasMessage
    /\ \/ Includes(r.error.message, "403")
       \/ Includes(r.error.message, "PERMISSION_DENIED")
       \/ Includes(r.error.message, "429")

\* r.error && (r.error.message?.includes("403") || r.error.message?.includes("PERMISSION_DENIED"))
IsFatal(r) ==
    /\ r.hasError
    /\ r.error.hasMessage
    /\ (Includes(r.error.message, "403") \/ Includes(r.error.message, "PERMISSION_DENIED"))

\* variant: findLast instead of find
FindLastFatal(results) ==
    LET hits == { i \in 1..Len(results) : IsFatal(results[i]) }
    IN  IF hits = {} THEN 0 ELSE CHOOSE i \in hits : \A j \in hits : j <= i

\* results.find(...): index of the first fatal result, 0 when find gives undefined
FindFatal(results) ==
    LET hits == { i \in 1..Len(results) : IsFatal(results[i]) }
    IN  IF hits = {} THEN 0 ELSE CHOOSE i \in hits : \A j \in hits : i <= j

\* variant: the filter is missing
NoFilter(results) == [i \in 1..Len(results) |-> [url |-> results[i].url, prompt |-> results[i].prompt]]

\* results.filter(r => r.success && r.url).map(r => ({ url, prompt }))
Successful(results) ==
    LET kept == SelectSeq(results, LAMBDA r : r.success /\ r.url # <<>>)
    IN  [i \in 1..Len(kept) |-> [url |-> kept[i].url, prompt |-> kept[i].prompt]]

\* generateStoryBatch from the end of Promise.all on
BatchFinish(results, mt) ==
    LET f == FindFatal(results)
        c == IF f # 0 THEN handleGeminiError(results[f].error, mt) ELSE Return("undefined")
    IN  [calls |-> IF f # 0 THEN <<[error |-> results[f].error, modelType |-> mt]>> ELSE <<>>,
         outcome |-> IF c.type = "throw" THEN c ELSE Return(Successful(results))]

\* ------------------------------------------------- single-unit entry points
\* variant: the catch block logs the error and goes on to its fallback statement
CatchSwallowing(error, mt, fallback) ==
    [calls |-> <<>>, outcome |-> fallback]

\* catch (error) { handleGeminiError(error, mt); <fallback statement> }
Catch(error, mt, fallback) ==
    LET c == handleGeminiError(error, mt)
    IN  [calls |-> <<[error |-> error, modelType |-> mt]>>,
         outcome |-> IF c.type = "throw" THEN c ELSE fallback]

NoCalls(c) == [calls |-> <<>>, outcome |-> c]

\* generateStudioImage from its await on
StudioFinish(u, prompt, mt) ==
    IF u.completion.type = "return"
    THEN NoCalls(Return([url |-> u.completion.value, prompt |-> prompt]))
    ELSE Catch(u.completion.value, mt, Return([url |-> <<>>, prompt |-> ""]))

\* generateReferenceImage from its await on
ReferenceFinish(u, mt) ==
    IF u.completion.type = "return" THEN NoCalls(u.completion)
    ELSE Catch(u.completion.value, mt, Throw(NewError(RefFallbackMsg)))

\* analyzePersona from its await on
PersonaFinish(u) ==
    IF u.completion.type = "return" THEN NoCalls(u.completion)
    ELSE Catch(u.completion.value, "undefined", Return(<<"{}">>))

\* planStory from its await on
PlanFinish(u) ==
    IF u.completion.type = "return" THEN NoCalls(u.completion)
    ELSE Catch(u.completion.value, "undefined", Return(<<>>))

\* ------------------------------------------------------- studio prompt
\* Camera settings: rotation in degrees, vertical in hundredths, zoom in tenths
\* (the code compares vertical with -0.3 / 0.3 and zoom with 7 / 3).
DefaultCamera == [rotation |-> 0, zoom |-> 0, vertical |-> 0, isWideAngle |-> FALSE]

Abs(n) == IF n < 0 THEN 0 - n ELSE n

\* variant: the comparisons include the threshold values
CameraDescriptionInclusive(settings) ==
    (IF settings.rotation <= -10
     THEN <<"Profile view from the left (", ToString(Abs(settings.rotation)), " degrees), ">>
     ELSE IF settings.rotation >= 10
     THEN <<"Profile view from the right (", ToString(settings.rotation), " degrees), ">>
     ELSE <<"Front facing view, ">>)
    \o (IF settings.vertical <= -30 THEN <<"Low angle shot (worm's eye view), ">>
        ELSE IF settings.vertical >= 30 THEN <<"High angle shot (bird's eye view), ">>
        ELSE <<"Eye-level shot, ">>)
    \o (IF settings.zoom >= 70 THEN <<"Extreme close-up on face, detailed features, ">>
        ELSE IF settings.zoom >= 30 THEN <<"Medium close-up (head and shoulders), ">>
        ELSE <<"Full body shot, ">>)
    \o (IF settings.isWideAngle
        THEN <<"Shot with a wide-angle lens (16mm), slightly distorted perspective, ">>
        ELSE <<"Shot with a portrait lens (85mm), ">>)

\* generateStudioImage: cameraDescription
CameraDescription(settings) ==
    (IF settings.rotation < -10
     THEN <<"Profile view from the left (", ToString(Abs(settings.rotation)), " degrees), ">>
     ELSE IF settings.rotation > 10
     THEN <<"Profile view from the right (", ToString(settings.rotation), " degrees), ">>
     ELSE <<"Front facing view, ">>)
    \o (IF settings.vertical < -30 THEN <<"Low angle shot (worm's eye view), ">>
        ELSE IF settings.vertical > 30 THEN <<"High angle shot (bird's eye view), ">>
        ELSE <<"Eye-level shot, ">>)
    \o (IF settings.zoom > 70 THEN <<"Extreme close-up on face, detailed features, ">>
        ELSE IF settings.zoom > 30 THEN <<"Medium close-up (head and shoulders), ">>
        ELSE <<"Full body shot, ">>)
    \o (IF settings.isWideAngle
        THEN <<"Shot with a wide-angle lens (16mm), slightly distorted perspective, ">>
        ELSE <<"Shot with a portrait lens (85mm), ">>)

StudioPersona ==
    [nickname |-> "Mina", age |-> "20s", occupation |-> "barista", vibe |-> "casual"]

StudioPromptHead(persona) ==
    <<"Studio photography session of ", persona.nickname, ". Age: ", persona.age,
      ". Occupation: ", persona.occupation, ". ", persona.vibe,
      " style. CAMERA SETUP: ">>

StudioPromptTail ==
    <<" The subject is posing professionally in a studio or clean aesthetic environment. Lighting should be high-quality studio lighting.">>

\* generateStudioImage: prompt
StudioPrompt(persona, settings) ==
    StudioPromptHead(persona) \o CameraDescription(settings) \o StudioPromptTail

\* ------------------------------------------------------------ App: the key
\* checkApiKey: the value it gives apiKeyError
checkApiKey(lk, ek) == ~Truthy(ek) /\ ~Truthy(lk)

\* null in the place of a persona, of an image and of an error message
NoPersona == [nickname |-> "", age |-> "", occupation |-> "", vibe |-> ""]
NoImage == <<>>
NoMessage == <<>>

\* useState initial values of the App, apart from refImage and cameraSettings
AppMounted ==
    /\ activeTab = "story"
    /\ appPersona = NoPersona
    /\ stories = <<>>
    /\ scenarioInput = ""
    /\ appState = "IDLE"
    /\ appError = NoMessage
    /\ tasks = EmptyBag
    /\ timers = 0
    /\ now = 0

\* ----------------------------------------------------------------- inputs
\* a reference image as the uploader or generateReferenceImage hands it over
UploadedImage == <<"data:image/", "png", ";base64,", "AAAA">>
KeyValues == {Absent, "", "user-key"}
EnvValues == {Absent, "", "env-key"}
PromptTexts == {"a", "b"}
PromptLists == UNION { [1..n -> PromptTexts] : n \in 0..MaxPrompts }
\* modelType as the callers pass it; App.tsx passes none
ModelTypes == {"standard", "pro", "undefined"}

Init ==
    /\ localKey \in KeyValues
    /\ envKey \in EnvValues
    /\ op = "none"
    /\ modelType = "undefined"
    /\ prompts = <<>>
    /\ pc = "idle"
    /\ units = <<>>
    /\ arrived = <<>>
    /\ lookups = 0
    /\ classified = <<>>
    /\ outcome = Pending
    /\ refImage = UploadedImage
    /\ camera = DefaultCamera
    /\ apiKeyError = checkApiKey(localKey, envKey)
    /\ AppMounted

\* ---------------------------------------------------------------- actions
\* An entry point that calls getAiClient() before its try block and then
\* issues its one request: generateReferenceImage, analyzePersona, planStory.
StartWithClient(o, mt) ==
    /\ pc = "idle"
    /\ op' = o
    /\ modelType' = mt
    /\ prompts' = <<o>>
    /\ lookups' = lookups + 1
    /\ LET c == getAiClient(localKey, envKey)
       IN  IF c.type = "throw"
           THEN /\ units' = <<IdleUnit>>
                /\ pc' = "done"
                /\ outcome' = c
           ELSE /\ units' = <<DirectCall(IdleUnit, c.value,
                                         IF o = "persona" THEN cleanBase64(refImage)
                                         ELSE <<>>)>>
                /\ pc' = "join"
                /\ outcome' = outcome
    /\ UNCHANGED <<appVars, refImage, camera, apiKeyError, localKey, envKey, arrived, classified>>

\* modelType: ModelType = 'standard' (a default parameter)
StartReference == \E mt \in {"standard", "pro"} : StartWithClient("reference", mt)

StartPersona == StartWithClient("persona", "undefined")

StartPlan == StartWithClient("plan", "undefined")

\* generateStudioImage up to its await: the camera prompt, then generateSingleImage
StartStudio ==
    \E mt \in ModelTypes :
        /\ pc = "idle"
        /\ op' = "studio"
        /\ modelType' = mt
        /\ prompts' = <<StudioPrompt(StudioPersona, camera)>>
        /\ lookups' = lookups + 1
        /\ units' = <<SingleImageCall(IdleUnit, localKey, envKey, refImage)>>
        /\ pc' = "join"
        /\ UNCHANGED <<appVars, refImage, camera, apiKeyError, localKey, envKey, arrived, classified, outcome>>

\* variant: the client is resolved once, before the map
BatchPreludeResolvingClient(lk, ek) == [lookups |-> 1, completion |-> getAiClient(lk, ek)]

\* generateStoryBatch before prompts.map: no statement, nothing is resolved
BatchPrelude(lk, ek) == [lookups |-> 0, completion |-> Return("undefined")]

StartBatch ==
    \E ps \in PromptLists, mt \in ModelTypes :
        /\ pc = "idle"
        /\ op' = "batch"
        /\ modelType' = mt
        /\ prompts' = ps
        /\ units' = [i \in 1..Len(ps) |-> IdleUnit]
        /\ LET p == BatchPrelude(localKey, envKey)
           IN  /\ lookups' = lookups + p.lookups
               /\ IF p.completion.type = "throw"
                  THEN pc' = "done" /\ outcome' = p.completion
                  ELSE /\ pc' = IF Len(ps) = 0 THEN "join" ELSE "map"
                       /\ outcome' = outcome
        /\ UNCHANGED <<appVars, refImage, camera, apiKeyError, localKey, envKey, arrived, classified>>

\* prompts.map invokes the callback for prompt i: generateSingleImage runs up
\* to its await
Dispatch(i) ==
    /\ op = "batch"
    /\ pc = "map"
    /\ i \in DOMAIN units
    /\ units[i].status = "idle"
    /\ \A j \in 1..(i - 1) : units[j].status # "idle"
    /\ units' = [units EXCEPT ![i] = SingleImageCall(units[i], localKey, envKey, refImage)]
    /\ lookups' = lookups + 1
    /\ pc' = IF i = Len(prompts) THEN "join"
             ELSE IF AwaitsEachUnit THEN "wait" ELSE "map"
    /\ UNCHANGED <<appVars, refImage, camera, apiKeyError, localKey, envKey, op, modelType, prompts, arrived, classified, outcome>>

Answers(o, i) == IF o \in {"persona", "plan"} THEN TextAnswers ELSE ImageAnswers(i)

Resume(o, answer) ==
    CASE o \in {"batch", "studio"} -> SingleImageResume(answer)
      [] o = "reference" -> ReferenceResume(answer)
      [] o = "persona" -> TextResume(answer, PersonaFailMsg)
      [] o = "plan" -> TextResume(answer, PlanFailMsg)

\* The awaited promise of unit i settles and the code after the await runs:
\* the service answered, or getAiClient had thrown (then the continuations
\* run in the order of the calls).
Settle(i) ==
    /\ pc \in {"join", "wait"}
    /\ i \in DOMAIN units
    /\ units[i].status = "awaiting"
    /\ LET u == units[i]
           rejected == u.completion.type = "throw"
       IN  /\ rejected => \A j \in 1..(i - 1) : units[j].status = "settled"
           /\ \E answer \in IF rejected THEN {Reject(u.completion.value)} ELSE Answers(op, i) :
                LET c == IF rejected THEN u.completion ELSE Resume(op, answer)
                    u0 == IF rejected \/ op = "batch" THEN u
                          ELSE [u EXCEPT !.answer = answer]
                    u1 == IF op \in {"batch", "studio"}
                          THEN SingleImageSettle(u0, c)
                          ELSE [u0 EXCEPT !.status = "settled", !.completion = c,
                                          !.outcomes = u.outcomes + 1]
                    u2 == IF op = "batch" /\ u1.status = "settled"
                          THEN [u1 EXCEPT !.captured = Capture(prompts[i], u1.completion)]
                          ELSE u1
                IN  /\ units' = [units EXCEPT ![i] = u2]
                    /\ arrived' = IF u2.status = "settled" THEN Append(arrived, i) ELSE arrived
                    /\ pc' = IF pc = "wait" /\ u2.status = "settled" THEN "map" ELSE pc
    /\ UNCHANGED <<appVars, refImage, camera, apiKeyError, localKey, envKey, op, modelType, prompts, lookups, classified, outcome>>

\* generateStoryBatch resumes after await Promise.all(promises)
Join ==
    /\ op = "batch"
    /\ pc = "join"
    /\ AllSettled(units)
    /\ LET r == BatchFinish(PromiseAll(units, arrived), modelType)
       IN  /\ classified' = classified \o r.calls
           /\ outcome' = r.outcome
    /\ pc' = "done"
    /\ UNCHANGED <<appVars, refImage, camera, apiKeyError, localKey, envKey, op, modelType, prompts, units, arrived, lookups>>

\* a single-unit entry point resumes after its await
Finish ==
    /\ op \in {"reference", "persona", "plan", "studio"}
    /\ pc = "join"
    /\ units[1].status = "settled"
    /\ LET r == CASE op = "studio" -> StudioFinish(units[1], prompts[1], modelType)
                  [] op = "reference" -> ReferenceFinish(units[1], modelType)
                  [] op = "persona" -> PersonaFinish(units[1])
                  [] op = "plan" -> PlanFinish(units[1])
       IN  /\ classified' = classified \o r.calls
           /\ outcome' = r.outcome
    /\ pc' = "done"
    /\ UNCHANGED <<appVars, refImage, camera, apiKeyError, localKey, envKey, op, modelType, prompts, units, arrived, lookups>>

Next ==
    \/ StartReference
    \/ StartPersona
    \/ StartPlan
    \/ StartStudio
    \/ StartBatch
    \/ \E i \in 1..MaxPrompts : Dispatch(i)
    \/ \E i \in 1..MaxPrompts : Settle(i)
    \/ Join
    \/ Finish

Spec == Init /\ [][Next]_vars

\* ------------------------------------------------- vocabulary of the claims
BatchDone == op = "batch" /\ pc = "done"

Units == DOMAIN units

KeyAvailable == Truthy(localKey) \/ Truthy(envKey)

\* the error's message text indicates 403 / permission denied
MessageIndicates403(e) ==
    e.hasMessage /\ (Includes(e.message, "403") \/ Includes(e.message, "PERMISSION_DENIED"))

UnitSucceeded(i) == units[i].completion.type = "return"

UnitFailed(i) == units[i].status = "settled" /\ units[i].completion.type = "throw"

UnitFailed403(i) == UnitFailed(i) /\ MessageIndicates403(units[i].completion.value)

\* requests issued to the service by the units 1..k
RECURSIVE SentUpTo(_)
SentUpTo(k) == IF k = 0 THEN 0 ELSE SentUpTo(k - 1) + units[k].sent

TotalSent == SentUpTo(Len(units))

\* the {url, prompt} pairs of the units among 1..k whose generation returned,
\* in the order of the prompts
RECURSIVE SucceededUpTo(_)
SucceededUpTo(k) ==
    IF k = 0 THEN <<>>
    ELSE IF UnitSucceeded(k)
         THEN Append(SucceededUpTo(k - 1),
                     [url |-> units[k].completion.value, prompt |-> prompts[k]])
         ELSE SucceededUpTo(k - 1)

\* ------------------------------------------------------------------ claims

C2_NonFatalFailuresDropped ==
    (BatchDone /\ ~ \E i \in Units : UnitFailed403(i)) =>
        /\ outcome.type = "return"
        /\ outcome.value = SucceededUpTo(Len(prompts))

\* two prompts, the first answered by a refusal text without image, the
\* second by an image: the list holds the second alone
C2_Witness ==
    /\ BatchDone
    /\ Len(prompts) = 2
    /\ UnitFailed(1)
    /\ units[1].completion.value = NewError(NoImageMsg)
    /\ UnitSucceeded(2)
    /\ outcome = Return(<<[url |-> PngPrefix \o ImageData(2), prompt |-> prompts[2]]>>)

\* C3: when every unit of a finished generateStoryBatch call succeeded, the
\* returned list is as long as prompts and its i-th element holds prompt i
\* and the image the service produced for the request of prompt i.
C3_AllSucceedSameOrder ==
    (BatchDone /\ \A i \in Units : UnitSucceeded(i)) =>
        /\ outcome.type = "return"
        /\ Len(outcome.value) = Len(prompts)
        /\ \A i \in 1..Len(prompts) :
              /\ outcome.value[i].prompt = prompts[i]
              /\ outcome.value[i].url = PngPrefix \o ImageData(i)

\* two different prompts whose responses arrived in reverse order
C3_Witness ==
    /\ BatchDone
    /\ Len(prompts) = 2
    /\ prompts[1] # prompts[2]
    /\ arrived = <<2, 1>>
    /\ \A i \in Units : UnitSucceeded(i)

\* C4: generateStoryBatch with zero prompts can always complete, and completes
\* by returning the empty list, having issued no request and made no
\* getAiClient call, whether or not a credential is registered.
C4_EmptyBatch ==
    (op = "batch" /\ prompts = <<>>) =>
        /\ pc # "done" => ENABLED Join
        /\ pc = "done" => outcome = Return(<<>>)
        /\ lookups = 0
        /\ TotalSent = 0

\* the empty batch has returned although no credential is registered
C4_Witness ==
    /\ BatchDone
    /\ prompts = <<>>
    /\ ~KeyAvailable
    /\ outcome = Return(<<>>)

\* C5: generateStoryBatch has neither returned nor thrown while one of its
\* units has not settled.
C5_WaitsForAllUnits ==
    (op = "batch" /\ outcome.type # "pending") =>
        \A i \in Units : units[i].status = "settled"

\* a unit has failed with 403 while another is still in flight, and the call
\* is still suspended
C5_Witness ==
    /\ op = "batch"
    /\ \E i, j \in Units :
          /\ UnitFailed403(i)
          /\ units[j].status = "awaiting"
          /\ units[j].sent = 1
    /\ outcome = Pending

\* C6: with a credential available, generateStoryBatch has issued the request
\* of every prompt before the first unit settles; a unit whose request is in
\* flight can settle whatever happened to the other units; and when the call
\* is over every unit has its own captured outcome, a success or an error.
C6_UnitsIndependent ==
    (op = "batch" /\ KeyAvailable) =>
        /\ arrived # <<>> => \A i \in Units : units[i].sent >= 1
        /\ \A i \in Units :
              (pc = "join" /\ units[i].status = "awaiting") => ENABLED Settle(i)
        /\ pc = "done" =>
              \A i \in Units :
                  /\ units[i].status = "settled"
                  /\ units[i].captured.prompt = prompts[i]
                  /\ units[i].captured.success = UnitSucceeded(i)
                  /\ units[i].captured.hasError = ~UnitSucceeded(i)

\* the second unit failed first, the first unit still got its image afterwards
C6_Witness ==
    /\ BatchDone
    /\ KeyAvailable
    /\ arrived = <<2, 1>>
    /\ UnitFailed(2)
    /\ units[1].captured.success
    /\ units[1].captured.url = PngPrefix \o ImageData(1)

\* C7: in a generateStoryBatch call and in a generateStudioImage call every
\* unit issues at most one request and produces at most one outcome, exactly
\* one when the call is over, so the requests of a call never outnumber its
\* prompts.
C7_NoRetry ==
    (op \in {"batch", "studio"}) =>
        /\ \A i \in Units :
              /\ units[i].sent <= 1
              /\ units[i].outcomes <= 1
              /\ (units[i].status = "settled" \/ pc = "done") => units[i].outcomes = 1
        /\ TotalSent <= Len(prompts)

\* a call is over in which a unit failed after its one request
C7_Witness ==
    /\ pc = "done"
    /\ op \in {"batch", "studio"}
    /\ \E i \in Units : UnitFailed(i) /\ units[i].sent = 1 /\ units[i].outcomes = 1

\* C8: without a credential every entry point that needs the service (a batch
\* with at least one prompt included) ends by throwing the missing-credential
\* error, having issued no request.
C8_MissingCredentialStops ==
    (pc = "done" /\ ~KeyAvailable /\ (op = "batch" => Len(prompts) >= 1)) =>
        /\ outcome = Throw(NewError(MissingKeyMsg))
        /\ TotalSent = 0

C10_ClassifierAlwaysThrows ==
    (pc = "done" /\ classified # <<>>) =>
        /\ outcome.type = "throw"
        /\ outcome.value # NewError(RefFallbackMsg)

\* analyzePersona, which passes no tier, met an error that is neither 403 nor
\* 429 and threw that error
C10_Witness ==
    /\ pc = "done"
    /\ op = "persona"
    /\ Len(classified) = 1
    /\ classified[1].modelType = "undefined"
    /\ classified[1].error = NewError(<<"fetch failed">>)
    /\ outcome = Throw(NewError(<<"fetch failed">>))

\* the text handleGeminiError inspects indicates 403 / permission denied
Indicates403(e) ==
    Includes(ErrorText(e), "403") \/ Includes(ErrorText(e), "PERMISSION_DENIED")

Indicates429(e) == Includes(ErrorText(e), "429")

\* C11: whenever an entry point has passed an error to handleGeminiError, the
\* entry point threw: the billing-required error when the error's text
\* indicates 403 / PERMISSION_DENIED and modelType is 'pro', the access-denied
\* error when it indicates 403 / PERMISSION_DENIED and the tier is anything
\* else or absent (also when the text indicates 429 as well), and the
\* rate-limited error when it indicates 429 and no permission condition.
C11_ClassifiesByTextAndTier ==
    (pc = "done" /\ classified # <<>>) =>
        LET e == classified[1].error
            mt == classified[1].modelType
        IN  /\ (Indicates403(e) /\ mt = "pro") => outcome = Throw(NewError(BillingMsg))
            /\ (Indicates403(e) /\ mt # "pro") => outcome = Throw(NewError(AccessDeniedMsg))
            /\ (Indicates429(e) /\ ~Indicates403(e)) => outcome = Throw(NewError(QuotaMsg))

\* planStory, which passes no tier, met an error naming 429 and 403 and threw
\* the access-denied error
C11_Witness ==
    /\ pc = "done"
    /\ op = "plan"
    /\ Len(classified) = 1
    /\ classified[1].modelType = "undefined"
    /\ Indicates429(classified[1].error)
    /\ Indicates403(classified[1].error)
    /\ outcome = Throw(NewError(AccessDeniedMsg))

\* C12: whenever the error passed to handleGeminiError indicates neither 403 /
\* PERMISSION_DENIED nor 429, the entry point threw that very error.
C12_UnrecognizedRethrown ==
    (pc = "done" /\ classified # <<>>) =>
        LET e == classified[1].error
        IN  (~Indicates403(e) /\ ~Indicates429(e)) => outcome = Throw(e)

\* a 'pro' generateStudioImage call whose response had no image threw the
\* 'No image generated' error itself
C12_Witness ==
    /\ pc = "done"
    /\ op = "studio"
    /\ modelType = "pro"
    /\ Len(classified) = 1
    /\ classified[1].error = NewError(NoImageMsg)
    /\ outcome = Throw(NewError(NoImageMsg))

\* C13: classifying again gives the same error: for the error an entry point
\* passed to handleGeminiError and the error the entry point then threw,
\* classifying the former again at the same tier yields the thrown error, and
\* so does classifying the thrown error itself.
C13_ClassificationIdempotent ==
    (pc = "done" /\ classified # <<>> /\ outcome.type = "throw") =>
        LET e == classified[1].error
            mt == classified[1].modelType
        IN  /\ handleGeminiError(e, mt) = outcome
            /\ handleGeminiError(outcome.value, mt) = outcome

\* a rate-limited request of generateReferenceImage ended in the quota error
C13_Witness ==
    /\ pc = "done"
    /\ op = "reference"
    /\ Len(classified) = 1
    /\ Indicates429(classified[1].error)
    /\ ~Indicates403(classified[1].error)
    /\ outcome = Throw(NewError(QuotaMsg))

\* ------------------------------------------------ response parsing claims
\* the unit of an entry point that makes one image request and got a response
ParsedUnit(i) ==
    /\ op \in {"studio", "reference"}
    /\ i \in Units
    /\ units[i].status = "settled"
    /\ units[i].answer.kind = "response"

IsImagePart(part) == part.hasInline /\ part.data # <<>>

IsTextPart(part) == part.text # <<>>

\* the response has a first candidate and that candidate lists its parts
HasScannedParts(answer) ==
    /\ answer.hasCandidates
    /\ Len(answer.candidates) > 0
    /\ answer.candidates[1].hasParts

ScannedParts(answer) == answer.candidates[1].parts

IsNoImageError(c) ==
    c \in {Throw(NewError(NoImageMsg)), Throw(NewError(NoImageRefMsg))}

\* C14: a response whose scanned candidate has no image part but a text part
\* makes the unit fail with the refusal error carrying that text.
C14_RefusalCarriesText ==
    \A i \in Units :
        (/\ ParsedUnit(i)
         /\ HasScannedParts(units[i].answer)
         /\ \A k \in DOMAIN ScannedParts(units[i].answer) :
                ~IsImagePart(ScannedParts(units[i].answer)[k])
         /\ \E k \in DOMAIN ScannedParts(units[i].answer) :
                IsTextPart(ScannedParts(units[i].answer)[k]))
        => \E k \in DOMAIN ScannedParts(units[i].answer) :
              /\ IsTextPart(ScannedParts(units[i].answer)[k])
              /\ units[i].completion =
                     Throw(NewError(RefusedPrefix \o ScannedParts(units[i].answer)[k].text))

\* C15: a response without candidates, or whose first candidate has no parts
\* (absent or empty), makes the unit fail with the no-image error and no other.
C15_NoPartsGivesNoImageError ==
    \A i \in Units :
        (/\ ParsedUnit(i)
         /\ \/ ~units[i].answer.hasCandidates
            \/ Len(units[i].answer.candidates) = 0
            \/ ~units[i].answer.candidates[1].hasParts
            \/ units[i].answer.candidates[1].parts = <<>>)
        => IsNoImageError(units[i].completion)

\* C16: only candidate 0 is scanned, in part order: the unit returns the data
\* of the first part with non-empty inline data under the PNG prefix, whatever
\* text parts precede it, and fails when candidate 0 has no such part, also
\* when a later candidate has one.
C16_FirstCandidateFirstImage ==
    \A i \in Units :
        (ParsedUnit(i) /\ HasScannedParts(units[i].answer)) =>
            LET parts == ScannedParts(units[i].answer)
            IN  /\ \A k \in DOMAIN parts :
                      (/\ IsImagePart(parts[k])
                       /\ \A m \in 1..(k - 1) : ~IsImagePart(parts[m]))
                      => units[i].completion = Return(PngPrefix \o parts[k].data)
                /\ (\A k \in DOMAIN parts : ~IsImagePart(parts[k]))
                      => units[i].completion.type = "throw"

\* generateStudioImage got two candidates of which only the second has an
\* image, and its unit failed
C16_Witness ==
    /\ op = "studio"
    /\ ParsedUnit(1)
    /\ Len(units[1].answer.candidates) = 2
    /\ \A k \in DOMAIN ScannedParts(units[1].answer) :
           ~IsImagePart(ScannedParts(units[1].answer)[k])
    /\ \E k \in DOMAIN units[1].answer.candidates[2].parts :
           IsImagePart(units[1].answer.candidates[2].parts[k])
    /\ units[1].completion.type = "throw"

\* ------------------------------------------------------ credential claims
IsEmpty(v) == v = Absent \/ v = ""

\* C17: every request carries the registered key when that is non-empty and
\* the environment default otherwise; the missing-credential error is thrown,
\* and no request made, exactly when both are absent or empty.
C17_CredentialPrecedence ==
    \A i \in Units :
        (units[i].status # "idle" \/ (op \notin {"batch", "studio"} /\ pc = "done")) =>
            LET missing == Throw(NewError(MissingKeyMsg))
                thrown == IF op \in {"batch", "studio"} THEN units[i].completion
                          ELSE outcome
            IN  /\ ~IsEmpty(localKey) =>
                      units[i].sent = 1 /\ units[i].key = localKey /\ thrown # missing
                /\ (IsEmpty(localKey) /\ ~IsEmpty(envKey)) =>
                      units[i].sent = 1 /\ units[i].key = envKey /\ thrown # missing
                /\ (IsEmpty(localKey) /\ IsEmpty(envKey)) =>
                      units[i].sent = 0 /\ thrown = missing

\* a request went out with the registered key although the environment
\* supplies a default
C17_Witness ==
    /\ pc = "done"
    /\ ~IsEmpty(localKey)
    /\ ~IsEmpty(envKey)
    /\ units # <<>>
    /\ units[1].sent = 1
    /\ units[1].key = localKey

\* ------------------------------------------- one request, varied arguments
\* reference images the uploader can hand over: data URLs of several formats
\* and bare base64 data
Payloads ==
    { <<"data:image/", fmt, ";base64,", "AAAA">> : fmt \in {"png", "jpeg", "webp", "gif", "bmp"} }
    \cup { <<"AAAA">>, <<"iVBOR", "w0KGgo">> }

CameraInputs ==
    [rotation : {-11, -10, 0, 10, 11},
     zoom : {0, 30, 31, 70, 71},
     vertical : {-31, -30, 0, 30, 31},
     isWideAngle : BOOLEAN]

InitUnit ==
    /\ localKey = "user-key"
    /\ envKey = Absent
    /\ op = "none"
    /\ modelType = "undefined"
    /\ prompts = <<>>
    /\ pc = "idle"
    /\ units = <<>>
    /\ arrived = <<>>
    /\ lookups = 0
    /\ classified = <<>>
    /\ outcome = Pending
    /\ refImage \in Payloads
    /\ camera \in CameraInputs
    /\ apiKeyError = checkApiKey(localKey, envKey)
    /\ AppMounted

NextUnit == StartStudio \/ StartPersona \/ Settle(1) \/ Finish

SpecUnit == InitUnit /\ [][NextUnit]_vars

\* --------------------------------------------------- credential rotation
\* what the user typed into the key dialog
TempKeys == {"", "  ", " new-key ", "other-key"}

\* String.prototype.trim on the values of TempKeys
Trim(t) ==
    CASE t = "  " -> ""
      [] t = " new-key " -> "new-key"
      [] OTHER -> t

\* App: handleSaveApiKey, between two tasks of the service
handleSaveApiKey ==
    /\ pc # "map"
    /\ \E tempApiKey \in TempKeys :
          IF Trim(tempApiKey) # ""
          THEN /\ localKey' = Trim(tempApiKey)
               /\ apiKeyError' = checkApiKey(Trim(tempApiKey), envKey)
          ELSE UNCHANGED <<localKey, apiKeyError>>
    /\ UNCHANGED <<envKey, op, modelType, prompts, pc, units, arrived, lookups,
                   classified, outcome, refImage, camera, appVars>>

\* the caller starts over: the finished call is forgotten
NextCall ==
    /\ pc = "done"
    /\ op' = "none"
    /\ modelType' = "undefined"
    /\ prompts' = <<>>
    /\ pc' = "idle"
    /\ units' = <<>>
    /\ arrived' = <<>>
    /\ lookups' = 0
    /\ classified' = <<>>
    /\ outcome' = Pending
    /\ UNCHANGED <<localKey, envKey, refImage, camera, apiKeyError, appVars>>

NextKey ==
    \/ StartReference
    \/ StartPersona
    \/ StartPlan
    \/ StartStudio
    \/ Settle(1)
    \/ Finish
    \/ handleSaveApiKey
    \/ NextCall

SpecKey == Init /\ [][NextKey]_vars

\* the credential the store resolves to at this moment
StoredCredential == IF ~IsEmpty(localKey) THEN localKey ELSE envKey

\* unit i issues a request in this step
IssuesRequest(i) ==
    /\ i \in DOMAIN units'
    /\ units'[i].sent > (IF i \in DOMAIN units THEN units[i].sent ELSE 0)

\* C18: the credential is not cached: a request issued in a step carries what
\* the store holds at that step, so also the key handleSaveApiKey stored
\* before it; the key of a request already issued never changes, and the
\* store is only ever changed to a non-empty key.
C18_step ==
    /\ \A i \in DOMAIN units' : IssuesRequest(i) => units'[i].key = StoredCredential
    /\ \A i \in DOMAIN units :
          (i \in DOMAIN units' /\ units[i].sent >= 1 /\ ~IssuesRequest(i)) =>
              /\ units'[i].key = units[i].key
              /\ localKey' # localKey => units'[i] = units[i]
    /\ localKey' # localKey => ~IsEmpty(localKey')

C18_NoCachedCredential == [][C18_step]_vars

\* a request issued after a key was saved carries that key, and is still in
\* flight, unchanged, after yet another key was saved
C18_Witness ==
    /\ units # <<>>
    /\ units[1].status = "awaiting"
    /\ units[1].sent = 1
    /\ units[1].key = "new-key"
    /\ localKey = "other-key"

\* ------------------------------------------------------------ camera claims
RotationOpeners ==
    {"Profile view from the left (", "Profile view from the right (", "Front facing view, "}

VerticalPhrases ==
    {"Low angle shot (worm's eye view), ", "High angle shot (bird's eye view), ",
     "Eye-level shot, "}

ZoomPhrases ==
    {"Extreme close-up on face, detailed features, ",
     "Medium close-up (head and shoulders), ", "Full body shot, "}

LensPhrases ==
    {"Shot with a wide-angle lens (16mm), slightly distorted perspective, ",
     "Shot with a portrait lens (85mm), "}

\* how many chunks of the text belong to the set of phrases
PhraseCount(text, phrases) == Cardinality({ k \in DOMAIN text : text[k] \in phrases })

\* the phrase of the set that the text holds (when it holds exactly one)
PhraseOf(text, phrases) == text[CHOOSE k \in DOMAIN text : text[k] \in phrases]

\* C19: the thresholds are strict: rotation within -10..10 gives the front
\* view, below -10 the left and above 10 the right profile; vertical within
\* -0.3..0.3 gives eye level; zoom above 7 the extreme close-up, above 3 up to
\* 7 the medium close-up, up to 3 the full body; the prompt holds exactly one
\* phrase per parameter, each determined by its own parameter alone.
C19_StrictThresholds ==
    (op = "studio" /\ pc # "idle") =>
        LET text == prompts[1]
        IN  /\ PhraseCount(text, RotationOpeners) = 1
            /\ PhraseCount(text, VerticalPhrases) = 1
            /\ PhraseCount(text, ZoomPhrases) = 1
            /\ PhraseCount(text, LensPhrases) = 1
            /\ PhraseOf(text, RotationOpeners) =
                  (IF camera.rotation < -10 THEN "Profile view from the left ("
                   ELSE IF camera.rotation <= 10 THEN "Front facing view, "
                   ELSE "Profile view from the right (")
            /\ PhraseOf(text, VerticalPhrases) =
                  (IF camera.vertical < -30 THEN "Low angle shot (worm's eye view), "
                   ELSE IF camera.vertical <= 30 THEN "Eye-level shot, "
                   ELSE "High angle shot (bird's eye view), ")
            /\ PhraseOf(text, ZoomPhrases) =
                  (IF camera.zoom <= 30 THEN "Full body shot, "
                   ELSE IF camera.zoom <= 70 THEN "Medium close-up (head and shoulders), "
                   ELSE "Extreme close-up on face, detailed features, ")
            /\ PhraseOf(text, LensPhrases) =
                  (IF camera.isWideAngle
                   THEN "Shot with a wide-angle lens (16mm), slightly distorted perspective, "
                   ELSE "Shot with a portrait lens (85mm), ")

\* generateStudioImage returned for rotation 10, vertical -0.3 and zoom 7
C19_Witness ==
    /\ op = "studio"
    /\ pc = "done"
    /\ outcome.type = "return"
    /\ camera.rotation = 10
    /\ camera.vertical = -30
    /\ camera.zoom = 70
    /\ Includes(outcome.value.prompt, "Front facing view, ")
    /\ Includes(outcome.value.prompt, "Eye-level shot, ")
    /\ Includes(outcome.value.prompt, "Medium close-up (head and shoulders), ")

\* ----------------------------------------------------------- payload claims
\* the payload without a header 'data:image/<format>;base64,'
WithoutDataUriHeader(payload) ==
    IF Len(payload) >= 3 /\ payload[1] = "data:image/" /\ payload[3] = ";base64,"
    THEN SubSeq(payload, 4, Len(payload))
    ELSE payload

\* C20: every request that carries the reference image carries it without
\* its data-URI header, whatever the format named in the header, an image
\* without header unchanged, and normalizing what was sent changes nothing.
C20_HeaderStripped ==
    \A i \in Units :
        (op \in {"studio", "persona"} /\ units[i].sent >= 1) =>
            /\ units[i].data = WithoutDataUriHeader(refImage)
            /\ cleanBase64(units[i].data) = units[i].data

\* ------------------------------------------------ error propagation claims
SingleUnitDone == op \in {"reference", "persona", "plan", "studio"} /\ pc = "done"

ClassifiedErrors ==
    {NewError(BillingMsg), NewError(AccessDeniedMsg), NewError(QuotaMsg)}

\* the value an entry point would resolve with in place of a result
Placeholder(o) ==
    CASE o = "studio" -> [url |-> <<>>, prompt |-> ""]
      [] o = "persona" -> <<"{}">>
      [] OTHER -> <<>>

\* C21: a single-unit entry point whose request failed has thrown: a
\* classified error when the failure indicates 403 or 429, the failure itself
\* otherwise; and an entry point that resolved had no failure and did not
\* resolve with a placeholder.
C21_FailurePropagates ==
    SingleUnitDone =>
        /\ units[1].answer.kind = "reject" =>
              LET e == units[1].answer.error
              IN  /\ outcome.type = "throw"
                  /\ (Indicates403(e) \/ Indicates429(e)) => outcome.value \in ClassifiedErrors
                  /\ (~Indicates403(e) /\ ~Indicates429(e)) => outcome.value = e
        /\ units[1].completion.type = "throw" => outcome.type = "throw"
        /\ outcome.type = "return" =>
              /\ units[1].completion.type = "return"
              /\ outcome.value # Placeholder(op)

\* analyzePersona, whose request was rejected with a network error, threw
\* that error
C21_Witness ==
    /\ op = "persona"
    /\ pc = "done"
    /\ units[1].answer = Reject(NewError(<<"fetch failed">>))
    /\ outcome = Throw(NewError(<<"fetch failed">>))

\* C22: a finished generateStoryBatch call has thrown exactly when the
\* classifier's permission test holds of the error of at least one failed
\* unit, whether that error has a message property or only a string form.
C22_FatalTestAgreesWithClassifier ==
    BatchDone =>
        (outcome.type = "throw" <=>
            \E i \in Units : UnitFailed(i) /\ Indicates403(units[i].completion.value))

\* the failed units of the batch all failed rate-limited
OnlyRateLimited ==
    /\ \E i \in Units : UnitFailed(i)
    /\ \A i \in Units :
          UnitFailed(i) => /\ Indicates429(units[i].completion.value)
                           /\ ~Indicates403(units[i].completion.value)

\* C23: a finished generateStoryBatch call whose failed units all failed with
\* 429 and none with 403 has returned the successful units only, and not
\* thrown; generateStudioImage with such a failure has thrown the quota error.
C23_RateLimitNotSurfacedByBatch ==
    /\ (BatchDone /\ OnlyRateLimited) =>
          /\ outcome = Return(SucceededUpTo(Len(prompts)))
          /\ (\A i \in Units : UnitFailed(i)) => outcome = Return(<<>>)
    /\ (op = "studio" /\ pc = "done" /\ UnitFailed(1)
          /\ Indicates429(units[1].completion.value)
          /\ ~Indicates403(units[1].completion.value)) =>
          outcome = Throw(NewError(QuotaMsg))

\* two prompts, the first rate-limited, the second answered by an image: the
\* call returned the second alone
C23_Witness ==
    /\ BatchDone
    /\ Len(prompts) = 2
    /\ OnlyRateLimited
    /\ UnitFailed(1)
    /\ UnitSucceeded(2)
    /\ outcome = Return(<<[url |-> PngPrefix \o ImageData(2), prompt |-> prompts[2]]>>)

\* ================================================================== the App
\* handlers suspended at an await plus pending timers, at one time
MaxTasks == 2
\* the entries a behaviour adds to stories, which is where Date.now() stops
MaxStories == 2

\* images the user can pick in the uploader
ImageA == <<"data:image/", "png", ";base64,", "AAAA">>
SelectableImages == {ImageA}

\* the persona the service describes for an image; personas of different
\* images are told apart by their nickname
PersonaOf(image) ==
    [nickname |-> image[Len(image)], age |-> "20s", occupation |-> "barista",
     vibe |-> "casual"]

\* the scene lists planStory can come back with (each prompt a text)
AppPromptLists == {<<>>, << <<"a">> >>}

\* what the service answers to a request of the App
AppFailures ==
    { NewError(<<"fetch failed">>), NewError(<<"got status: ", "403", " Forbidden">>) }

AppImageAnswers(i) ==
    { Response(<<Candidate(<<ImagePart(ImageData(i))>>)>>) }
    \cup { Reject(e) : e \in AppFailures }

AppTextAnswers ==
    { TextResponse(<<"{...}">>, TRUE), Reject(NewError(<<"fetch failed">>)) }

\* a unit that settled with the completion c
SettledUnit(c) == [IdleUnit EXCEPT !.status = "settled", !.completion = c]

\* the completions of analyzePersona(image): the parsed JSON is the persona
\* of the image
analyzePersonaResults(image) ==
    { LET r == PersonaFinish(SettledUnit(TextResume(a, PersonaFailMsg))).outcome
      IN  IF r.type = "return" THEN Return(PersonaOf(image)) ELSE r
      : a \in AppTextAnswers }

\* the completions of planStory(persona, scenario): the parsed JSON is a list
\* of prompts
planStoryResults ==
    UNION { LET r == PlanFinish(SettledUnit(TextResume(a, PlanFailMsg))).outcome
            IN  IF r.type = "return" THEN { Return(ps) : ps \in AppPromptLists }
                ELSE {r}
            : a \in AppTextAnswers }

\* the completions of generateReferenceImage(attrs)
generateReferenceImageResults ==
    { ReferenceFinish(SettledUnit(ReferenceResume(a)), "standard").outcome
      : a \in AppImageAnswers(1) }

\* the completions of generateStudioImage(refImage, cameraSettings, persona)
generateStudioImageResults(prompt) ==
    { StudioFinish(SettledUnit(SingleImageResume(a)), prompt, "undefined").outcome
      : a \in AppImageAnswers(1) }

\* the completions of generateStoryBatch(refImage, prompts)
generateStoryBatchResults(ps) ==
    LET answers == { f \in [1..Len(ps) -> UNION { AppImageAnswers(i) : i \in 1..Len(ps) }] :
                       \A i \in 1..Len(ps) : f[i] \in AppImageAnswers(i) }
    IN  { BatchFinish([i \in 1..Len(ps) |-> Capture(ps[i], SingleImageResume(f[i]))],
                      "undefined").outcome : f \in answers }

\* err.message || fallback
MessageOr(err, fallback) ==
    IF err.hasMessage /\ err.message # <<>> THEN err.message ELSE fallback

SelectFailMsg ==
    <<"Could not analyze persona. Please try a clearer photo or check your API key.">>
CreateFailMsg == <<"Failed to create persona.">>
StoryFailMsg == <<"Failed to generate story.">>
NoImagesMsg == <<"Failed to generate any images.">>
StudioFailMsg == <<"Failed to generate studio shot.">>

\* a handler suspended at an await: what it awaits and what its closure holds
Task(kind, step, image, pers, scenario, ps) ==
    [kind |-> kind, step |-> step, image |-> image, persona |-> pers,
     scenario |-> scenario, prompts |-> ps]

\* the suspended handlers without / with one more / with t replaced by t2
Without(bag, t) == bag (-) SetToBag({t})
With(bag, t) == bag (+) SetToBag({t})
Replaced(bag, t, t2) == With(Without(bag, t), t2)

\* room for one more pending callback
CanSuspend == BagCardinality(tasks) + timers < MaxTasks

\* how many handlers of the given kinds are suspended
RECURSIVE CountKinds(_, _)
CountKinds(ts, kinds) ==
    IF ts = {} THEN 0
    ELSE LET t == CHOOSE x \in ts : TRUE
         IN  (IF t.kind \in kinds THEN CopiesIn(t, tasks) ELSE 0)
             + CountKinds(ts \ {t}, kinds)

\* room for one more entry of stories
CanGenerate == now + CountKinds(BagToSet(tasks), {"story", "studio"}) < MaxStories

\* ------------------------------------------------------------ App handlers
InitApp ==
    /\ localKey = "user-key"
    /\ envKey = Absent
    /\ op = "none"
    /\ modelType = "undefined"
    /\ prompts = <<>>
    /\ pc = "idle"
    /\ units = <<>>
    /\ arrived = <<>>
    /\ lookups = 0
    /\ classified = <<>>
    /\ outcome = Pending
    /\ refImage = NoImage
    /\ camera = DefaultCamera
    /\ apiKeyError = checkApiKey(localKey, envKey)
    /\ AppMounted

\* what no handler of the App writes; of the service call a handler awaits,
\* the App holds the completion alone, in outcome
AppFixed == <<localKey, envKey, op, modelType, prompts, pc, units, arrived, lookups,
              classified, camera, apiKeyError>>

\* setActiveTab from the three tab buttons
SetActiveTab ==
    /\ \E tab \in {"story", "studio", "maker"} : tab # activeTab /\ activeTab' = tab
    /\ UNCHANGED <<AppFixed, outcome, refImage, appPersona, stories, scenarioInput, appState,
                   appError, tasks, timers, now>>

\* handleImageSelect up to its await (PhotoUploader is shown off the maker tab)
handleImageSelect ==
    /\ activeTab # "maker"
    /\ CanSuspend
    /\ \E base64 \in SelectableImages :
          /\ refImage' = base64
          /\ tasks' = With(tasks, Task("select", "persona", base64, NoPersona, "", <<>>))
    /\ appPersona' = NoPersona
    /\ appState' = "ANALYZING"
    /\ appError' = NoMessage
    /\ activeTab' = IF activeTab = "maker" THEN "story" ELSE activeTab
    /\ UNCHANGED <<AppFixed, outcome, stories, scenarioInput, timers, now>>

\* handleCreatePersona up to its first await (PersonaCreator is the maker tab)
handleCreatePersona ==
    /\ activeTab = "maker"
    /\ CanSuspend
    /\ appState' = "ANALYZING"
    /\ appError' = NoMessage
    /\ refImage' = NoImage
    /\ appPersona' = NoPersona
    /\ tasks' = With(tasks, Task("create", "reference", NoImage, NoPersona, "", <<>>))
    /\ UNCHANGED <<AppFixed, outcome, activeTab, stories, scenarioInput, timers, now>>

\* the generate buttons: disabled={!persona || apiKeyError}
GenerateEnabled == appPersona # NoPersona /\ ~apiKeyError

\* handleGenerateStory up to its first await (Controls is the story tab)
handleGenerateStory ==
    /\ activeTab = "story"
    /\ GenerateEnabled
    /\ CanSuspend
    /\ CanGenerate
    /\ \E isAuto \in BOOLEAN :
          IF refImage = NoImage \/ appPersona = NoPersona
          THEN UNCHANGED <<appState, appError, tasks>>
          ELSE /\ appState' = "PLANNING"
               /\ appError' = NoMessage
               /\ tasks' = With(tasks, Task("story", "plan", refImage, appPersona,
                                              IF isAuto THEN "" ELSE scenarioInput, <<>>))
    /\ UNCHANGED <<AppFixed, outcome, refImage, appPersona, activeTab, stories, scenarioInput,
                   timers, now>>

\* handleGenerateStudio up to its await (CameraControls is the studio tab)
handleGenerateStudio ==
    /\ activeTab = "studio"
    /\ GenerateEnabled
    /\ CanSuspend
    /\ CanGenerate
    /\ IF refImage = NoImage \/ appPersona = NoPersona
       THEN UNCHANGED <<appState, appError, tasks>>
       ELSE /\ appState' = "GENERATING"
            /\ appError' = NoMessage
            /\ tasks' = With(tasks, Task("studio", "studio", refImage, appPersona, "",
                                           <<StudioPrompt(appPersona, camera)>>))
    /\ UNCHANGED <<AppFixed, outcome, refImage, appPersona, activeTab, stories, scenarioInput,
                   timers, now>>

\* resetAll (onClear of PhotoUploader, onReset of PersonaCard)
resetAll ==
    /\ activeTab # "maker"
    /\ refImage' = NoImage
    /\ appPersona' = NoPersona
    /\ stories' = <<>>
    /\ scenarioInput' = ""
    /\ appState' = "IDLE"
    /\ UNCHANGED <<AppFixed, outcome, activeTab, appError, tasks, timers, now>>

\* setTimeout(() => setAppState(AppState.IDLE), 1000)
TimerFires ==
    /\ timers > 0
    /\ timers' = timers - 1
    /\ appState' = "IDLE"
    /\ UNCHANGED <<AppFixed, outcome, refImage, appPersona, activeTab, stories, scenarioInput,
                   appError, tasks, now>>

\* ------------------------------------------------- App handlers, resumed
\* the values Date.now() can give at this step: time went on since the last
\* entry was made
Clock == {now + 1}

\* the catch block of a handler
Failed(message) ==
    /\ appError' = message
    /\ appState' = "ERROR"

\* images: generatedImages.map((img, idx) => ({ id, url, prompt }))
StoryImages(t, generatedImages) ==
    [idx \in 1..Len(generatedImages) |->
        [id |-> <<ToString(t), "-", ToString(idx - 1)>>,
         url |-> generatedImages[idx].url,
         prompt |-> generatedImages[idx].prompt]]

\* variant: the new entry is put behind the others
AddStoryLast(prev, newStory) == Append(prev, newStory)

\* setStories(prev => [newStory, ...prev])
AddStory(prev, newStory) == <<newStory>> \o prev

\* the end of the try block of both generation handlers
Succeeded(newStory) ==
    /\ stories' = AddStory(stories, newStory)
    /\ appState' = "SUCCESS"
    /\ timers' = timers + 1
    /\ now' = newStory.timestamp

\* handleImageSelect after await analyzePersona(base64)
AnalysisArrives(task) ==
    /\ BagIn(task, tasks)
    /\ task.kind = "select"
    /\ tasks' = Without(tasks, task)
    /\ \E r \in analyzePersonaResults(task.image) :
          /\ outcome' = r
          /\ IF r.type = "return"
             THEN /\ appPersona' = r.value
                  /\ appState' = "IDLE"
                  /\ appError' = appError
             ELSE /\ Failed(SelectFailMsg)
                  /\ appPersona' = appPersona
    /\ UNCHANGED <<AppFixed, refImage, activeTab, stories, scenarioInput, timers, now>>

\* handleCreatePersona after await generateReferenceImage(attrs)
ReferenceArrives(task) ==
    /\ BagIn(task, tasks)
    /\ task.kind = "create"
    /\ task.step = "reference"
    /\ \E r \in generateReferenceImageResults :
          /\ outcome' = r
          /\ IF r.type = "return"
             THEN /\ refImage' = r.value
                  /\ tasks' = Replaced(tasks, task, Task("create", "persona", r.value,
                                                            NoPersona, "", <<>>))
                  /\ UNCHANGED <<appState, appError>>
             ELSE /\ Failed(MessageOr(r.value, CreateFailMsg))
                  /\ tasks' = Without(tasks, task)
                  /\ refImage' = refImage
    /\ UNCHANGED <<AppFixed, appPersona, activeTab, stories, scenarioInput, timers, now>>

\* handleCreatePersona after await analyzePersona(generatedImage)
CreatedAnalysisArrives(task) ==
    /\ BagIn(task, tasks)
    /\ task.kind = "create"
    /\ task.step = "persona"
    /\ tasks' = Without(tasks, task)
    /\ \E r \in analyzePersonaResults(task.image) :
          /\ outcome' = r
          /\ IF r.type = "return"
             THEN /\ appPersona' = r.value
                  /\ appState' = "IDLE"
                  /\ activeTab' = "story"
                  /\ appError' = appError
             ELSE /\ Failed(MessageOr(r.value, CreateFailMsg))
                  /\ UNCHANGED <<appPersona, activeTab>>
    /\ UNCHANGED <<AppFixed, refImage, stories, scenarioInput, timers, now>>

\* handleGenerateStory after await planStory(persona, currentScenario)
PlanArrives(task) ==
    /\ BagIn(task, tasks)
    /\ task.kind = "story"
    /\ task.step = "plan"
    /\ \E r \in planStoryResults :
          /\ outcome' = r
          /\ IF r.type = "return"
             THEN /\ appState' = "GENERATING"
                  /\ tasks' = Replaced(tasks, task, [task EXCEPT !.step = "batch",
                                                            !.prompts = r.value])
                  /\ appError' = appError
             ELSE /\ Failed(MessageOr(r.value, StoryFailMsg))
                  /\ tasks' = Without(tasks, task)
    /\ UNCHANGED <<AppFixed, refImage, appPersona, activeTab, stories, scenarioInput,
                   timers, now>>

\* handleGenerateStory after await generateStoryBatch(refImage, prompts)
BatchArrives(task) ==
    /\ BagIn(task, tasks)
    /\ task.kind = "story"
    /\ task.step = "batch"
    /\ tasks' = Without(tasks, task)
    /\ \E r \in generateStoryBatchResults(task.prompts) :
          /\ outcome' = r
          /\ IF r.type = "return" /\ Len(r.value) # 0
             THEN /\ \E t \in Clock :
                       Succeeded([id |-> ToString(t), timestamp |-> t,
                                  scenario |-> IF task.scenario # "" THEN task.scenario
                                               ELSE "AI Lifestyle Series",
                                  images |-> StoryImages(t, r.value)])
                  /\ appError' = appError
             ELSE /\ Failed(IF r.type = "return" THEN NoImagesMsg
                            ELSE MessageOr(r.value, StoryFailMsg))
                  /\ UNCHANGED <<stories, timers, now>>
    /\ UNCHANGED <<AppFixed, refImage, appPersona, activeTab, scenarioInput>>

\* handleGenerateStudio after await generateStudioImage(...)
StudioArrives(task) ==
    /\ BagIn(task, tasks)
    /\ task.kind = "studio"
    /\ tasks' = Without(tasks, task)
    /\ \E r \in generateStudioImageResults(task.prompts[1]) :
          /\ outcome' = r
          /\ IF r.type = "return"
             THEN /\ \E t \in Clock :
                       Succeeded([id |-> ToString(t), timestamp |-> t,
                                  scenario |-> "Studio Session",
                                  images |-> <<[id |-> <<ToString(t)>>, url |-> r.value.url,
                                               prompt |-> r.value.prompt]>>])
                  /\ appError' = appError
             ELSE /\ Failed(MessageOr(r.value, StudioFailMsg))
                  /\ UNCHANGED <<stories, timers, now>>
    /\ UNCHANGED <<AppFixed, refImage, appPersona, activeTab, scenarioInput>>

NextApp ==
    \/ SetActiveTab
    \/ handleImageSelect
    \/ handleCreatePersona
    \/ handleGenerateStory
    \/ handleGenerateStudio
    \/ resetAll
    \/ TimerFires
    \/ \E task \in BagToSet(tasks) :
          \/ AnalysisArrives(task)
          \/ ReferenceArrives(task)
          \/ CreatedAnalysisArrives(task)
          \/ PlanArrives(task)
          \/ BatchArrives(task)
          \/ StudioArrives(task)

SpecApp == InitApp /\ [][NextApp]_vars

\* --------------------------------------------------------------- App claims
\* C24: a persona that is not null belongs to the reference image the App
\* holds: there is such an image and the persona is the analysis of it.
C24_PersonaBelongsToImage ==
    appPersona # NoPersona =>
        /\ refImage # NoImage
        /\ appPersona = PersonaOf(refImage)

\* a story or studio generation is suspended at an await
GenerationInFlight == \E t \in BagToSet(tasks) : t.kind \in {"story", "studio"}

\* C25: while a story or studio generation is in flight, appState is
\* PLANNING or GENERATING.
C25_GenerationKeepsAppState ==
    GenerationInFlight => appState \in {"PLANNING", "GENERATING"}

\* a generation handler ran to its end in this step
GenerationEnds ==
    \E t \in BagToSet(tasks) :
        /\ t.kind = "studio" \/ (t.kind = "story" /\ t.step = "batch")
        /\ tasks' = Without(tasks, t)

\* a story generation got its batch back in this step
BatchComesBack ==
    \E t \in BagToSet(tasks) :
        /\ t.kind = "story"
        /\ t.step = "batch"
        /\ tasks' = Without(tasks, t)

\* C26: every entry of stories holds at least one image and the entries are
\* in the order newest first; stories changes only by being emptied or by
\* one entry being put in front by a generation that ends in SUCCESS; a
\* story generation whose batch came back empty or thrown adds no entry and
\* ends in ERROR with an error message.
C26_step ==
    /\ \A i \in DOMAIN stories' : Len(stories'[i].images) >= 1
    /\ \A i \in DOMAIN stories' : \A j \in DOMAIN stories' :
          i < j => stories'[i].timestamp >= stories'[j].timestamp
    /\ Len(stories') > Len(stories) =>
          /\ GenerationEnds
          /\ appState' = "SUCCESS"
          /\ Len(stories') = Len(stories) + 1
          /\ Tail(stories') = stories
    /\ (Len(stories') <= Len(stories) /\ stories' # stories) => stories' = <<>>
    /\ (GenerationEnds /\ appState' = "SUCCESS") => Len(stories') = Len(stories) + 1
    /\ (BatchComesBack /\ (outcome'.type = "throw" \/ outcome'.value = <<>>)) =>
          /\ stories' = stories
          /\ appState' = "ERROR"
          /\ appError' # NoMessage

C26_StoriesHoldImages == [][C26_step]_vars

\* one generation has added its entry, a story generation after it got an
\* empty batch back and ended in ERROR
C26_Witness ==
    /\ Len(stories) = 1
    /\ Len(stories[1].images) = 1
    /\ outcome = Return(<<>>)
    /\ appState = "ERROR"
    /\ appError = NoImagesMsg

====
